---- MODULE Spec2Model ----
(***************************************************************************)
(* Pevele Carembault (Publidata) waste collection source:                  *)
(*   (city_name | citycode) -> geocoder -> events -> list of Collection.   *)
(* Python values and JSON documents are tagged records; every text value   *)
(* is a tuple of one-character strings so that slicing, stripping and      *)
(* parsing are computed character by character.                            *)
(***************************************************************************)
EXTENDS Integers, Sequences, FiniteSets, TLC

VARIABLES
    self,        \* the Source instance's attributes set by __init__
    pc,          \* where fetch() is: "idle" (not running), blocked in the "search", "geocoder" or
                 \* "events" GET, or between two calls ("resolved": line 174 done, "geocoded": line 175 done)
    citycode,    \* fetch()'s local citycode (Null while unbound)
    address_id,  \* fetch()'s local address_id (Null while unbound)
    reqs,        \* history: the GET requests issued by the current/last invocation
    resp,        \* history: the response to the latest GET of the current/last invocation
    r_city,      \* history: what _resolve_citycode() did in the current/last invocation
    r_addr,      \* history: what _geocode() did
    r_events,    \* history: what _fetch_events() did
    outcome,     \* history: how the last invocation ended (NotRun while none has ended)
    self0,       \* history: the attributes as __init__ left them
    calls,       \* history: how many times fetch() was called, counted up to MaxCalls
    digObj,      \* _dig exercised alone: its obj argument
    digPath,     \* its path argument
    digRes       \* its result (NotRun before the call)

vars == <<self, pc, citycode, address_id, reqs, resp, r_city, r_addr, r_events,
          outcome, self0, calls, digObj, digPath, digRes>>

fetchVars == <<self, pc, citycode, address_id, reqs, resp, r_city, r_addr, r_events,
               outcome, self0, calls>>

digVars == <<digObj, digPath, digRes>>

----------------------------------------------------------------------------
(* Bounds of the explored inputs *)

\* fetch() calls on one instance are counted up to this many
MaxCalls == 2
\* longest list of raw events in an events response
MaxEvents == 2
\* longest list of features in a geocoder response
MaxFeatures == 2
\* longest list inside the JSON values handed to _dig alone
MaxDigLen == 2
\* longest path handed to _dig alone
MaxPathLen == 2

----------------------------------------------------------------------------
(* Python / JSON values *)

Null == [k |-> "null"]
JStr(s) == [k |-> "str", v |-> s]
JNum(n) == [k |-> "num", v |-> n]
JBool(b) == [k |-> "bool", v |-> b]
JList(s) == [k |-> "list", v |-> s]
\* text that is a URL, as its pieces between slashes (the empty text is <<"">>)
JUrl(pieces) == [k |-> "url", v |-> pieces]
\* a module-level object held by reference
Ref(name) == [k |-> "ref", v |-> name]
\* a dict is its set of entries, KV(key, value), keys distinct
JDict(es) == [k |-> "dict", v |-> es]
KV(key, val) == [key |-> key, val |-> val]

\* results of a call: a return value or a raised exception (with the raising line)
Ok(v) == [k |-> "ok", v |-> v]
Raise(type, line) == [k |-> "raise", type |-> type, line |-> line]
NotRun == [k |-> "notrun"]

\* bool(x): None, False, 0, "", [] and {} are falsy
Truthy(x) ==
    CASE x.k = "null" -> FALSE
      [] x.k = "bool" -> x.v
      [] x.k = "num"  -> x.v # 0
      [] x.k = "str"  -> Len(x.v) > 0
      [] x.k = "url"  -> x.v # <<"">>
      [] x.k = "list" -> Len(x.v) > 0
      [] x.k = "dict" -> x.v # {}
      [] OTHER -> TRUE

\* d.get(key) on a dict: the value, None when the key is absent
DictGet(d, key) ==
    IF \E e \in d.v : e.key = key
    THEN (CHOOSE e \in d.v : e.key = key).val
    ELSE Null

\* x.get(key) on any value: only a dict has the method
PyGet(x, key, line) ==
    IF x.k = "dict" THEN Ok(DictGet(x, key)) ELSE Raise("AttributeError", line)

\* x[i] for an integer i
PySubscript(x, i, line) ==
    CASE x.k = "list" ->
            LET j == IF i < 0 THEN i + Len(x.v) ELSE i
            IN  IF j >= 0 /\ j < Len(x.v) THEN Ok(x.v[j + 1]) ELSE Raise("IndexError", line)
      [] x.k = "str" ->
            LET j == IF i < 0 THEN i + Len(x.v) ELSE i
            IN  IF j >= 0 /\ j < Len(x.v) THEN Ok(JStr(<<x.v[j + 1]>>)) ELSE Raise("IndexError", line)
      [] x.k = "dict" -> Raise("KeyError", line)
      [] OTHER -> Raise("TypeError", line)

Digits == <<"0", "1", "2", "3", "4", "5", "6", "7", "8", "9">>
IsDigit(c) == \E i \in 1..10 : Digits[i] = c
DigitVal(c) == (CHOOSE i \in 1..10 : Digits[i] = c) - 1

RECURSIVE DecimalOf(_)
DecimalOf(n) == IF n < 10 THEN <<Digits[n + 1]>> ELSE DecimalOf(n \div 10) \o <<Digits[(n % 10) + 1]>>

\* str(x) for the values an identifier or code can be
Str(x) ==
    CASE x.k = "str"  -> x.v
      [] x.k = "num"  -> DecimalOf(x.v)
      [] x.k = "bool" -> IF x.v THEN <<"T", "r", "u", "e">> ELSE <<"F", "a", "l", "s", "e">>
      [] OTHER -> <<"?">>

IsSpace(c) == c \in {" ", "\t", "\n"}

RECURSIVE lstrip(_)
lstrip(s) == IF Len(s) > 0 /\ IsSpace(s[1]) THEN lstrip(Tail(s)) ELSE s

RECURSIVE rstrip(_)
rstrip(s) == IF Len(s) > 0 /\ IsSpace(s[Len(s)]) THEN rstrip(SubSeq(s, 1, Len(s) - 1)) ELSE s

\* str.strip()
strip(s) == rstrip(lstrip(s))

RECURSIVE rstrip_slash(_)
\* str.rstrip("/") on the pieces of a URL: the empty pieces at the end go
rstrip_slash(u) ==
    IF Len(u) > 1 /\ u[Len(u)] = ""
    THEN rstrip_slash(SubSeq(u, 1, Len(u) - 1))
    ELSE u

\* s[:n]
Prefix(s, n) == SubSeq(s, 1, IF Len(s) < n THEN Len(s) ELSE n)

----------------------------------------------------------------------------
(* Module constants *)

\* a URL is kept as its pieces between slashes: "a//b/" is <<"a", "", "b", "">>
CITY_SEARCH_URL == <<"https:", "", "api.publidata.io", "v2", "search">>
GEOCODER_URL == <<"https:", "", "api.publidata.io", "v2", "geocoder">>
DEFAULT_EVENTS_URL == <<"https:", "", "api.publidata.io", "v2", "waste_collection", "events">>

Key(s) == [k |-> "key", v |-> s]
Idx(i) == [k |-> "idx", v |-> i]

CITY_ARRAY_PATH == <<Key("items")>>
CITY_CODE_FIELD == "insee_code"
ADDR_ARRAY_PATH == <<Key("features")>>
ADDR_ID_PATH == <<Key("properties"), Key("id")>>
EVENTS_ARRAY_PATH == <<Key("items")>>
EVENT_DATE_FIELD == "date"
EVENT_TYPE_FIELD == "stream"

INSEE_WHITELIST_DEFAULT ==
    JList(<<
        JStr(<<"5","9","0","0","4">>), JStr(<<"5","9","0","2","2">>), JStr(<<"5","9","0","2","9">>),
        JStr(<<"5","9","0","3","4">>), JStr(<<"5","9","0","4","2">>), JStr(<<"5","9","0","7","1">>),
        JStr(<<"5","9","0","8","0">>), JStr(<<"5","9","0","9","6">>), JStr(<<"5","9","1","0","5">>),
        JStr(<<"5","9","1","2","3">>), JStr(<<"5","9","1","2","4">>), JStr(<<"5","9","1","2","9">>),
        JStr(<<"5","9","1","4","5">>), JStr(<<"5","9","1","5","0">>), JStr(<<"5","9","1","5","8">>),
        JStr(<<"5","9","1","6","8">>), JStr(<<"5","9","1","9","7">>), JStr(<<"5","9","2","5","8">>),
        JStr(<<"5","9","2","6","6">>), JStr(<<"5","9","3","0","4">>), JStr(<<"5","9","3","3","0">>),
        JStr(<<"5","9","3","6","4">>), JStr(<<"5","9","3","9","8">>), JStr(<<"5","9","4","0","8">>),
        JStr(<<"5","9","4","1","1">>), JStr(<<"5","9","4","1","9">>), JStr(<<"5","9","4","2","7">>),
        JStr(<<"5","9","4","3","5">>), JStr(<<"5","9","4","4","9">>), JStr(<<"5","9","4","5","2">>),
        JStr(<<"5","9","4","6","2">>), JStr(<<"5","9","4","6","6">>), JStr(<<"5","9","5","5","1">>),
        JStr(<<"5","9","5","8","6">>), JStr(<<"5","9","5","9","2">>), JStr(<<"5","9","6","0","0">>),
        JStr(<<"5","9","6","3","0">>), JStr(<<"5","9","6","3","8">>)
    >>)

\* the list a reference stands for
Deref(x) == IF x.k = "ref" THEN INSEE_WHITELIST_DEFAULT ELSE x

----------------------------------------------------------------------------
(* _dig *)

\* one iteration of the loop body, lines 61-66
dig_step(cur, key) ==
    IF key.k = "idx"
    THEN PySubscript(cur, key.v, 62)
    ELSE IF cur.k # "dict" THEN Raise("KeyError", 65) ELSE Ok(DictGet(cur, key.v))

RECURSIVE dig_from(_, _, _)
dig_from(cur, path, i) ==
    IF i > Len(path)
    THEN Ok(cur)
    ELSE LET step == dig_step(cur, path[i])
         IN  IF step.k = "raise" THEN step
             ELSE IF step.v = Null THEN Raise("KeyError", 68)
             ELSE dig_from(step.v, path, i + 1)

_dig(obj, path) == dig_from(obj, path, 1)

----------------------------------------------------------------------------
(* datetime *)

IsLeap(y) == (y % 4 = 0 /\ y % 100 # 0) \/ y % 400 = 0

DaysInMonth(y, m) ==
    CASE m \in {1, 3, 5, 7, 8, 10, 12} -> 31
      [] m \in {4, 6, 9, 11} -> 30
      [] OTHER -> IF IsLeap(y) THEN 29 ELSE 28

\* the range check of the date constructor (MINYEAR..MAXYEAR, month, day of month)
ValidDate(y, m, d) ==
    /\ y >= 1 /\ y <= 9999
    /\ m >= 1 /\ m <= 12
    /\ d >= 1 /\ d <= DaysInMonth(y, m)

Date(y, m, d) == [y |-> y, m |-> m, d |-> d]

AllDigits(s) == \A i \in 1..Len(s) : IsDigit(s[i])

RECURSIVE IntOf(_)
IntOf(s) == IF Len(s) = 0 THEN 0 ELSE IntOf(SubSeq(s, 1, Len(s) - 1)) * 10 + DigitVal(s[Len(s)])

\* datetime.date.fromisoformat(s) for text s: the extended format YYYY-MM-DD.
\* (Newer interpreters also take the basic and week formats; no explored input
\* is in one of those.)
fromisoformat(s) ==
    IF /\ Len(s) = 10
       /\ s[5] = "-" /\ s[8] = "-"
       /\ AllDigits(SubSeq(s, 1, 4)) /\ AllDigits(SubSeq(s, 6, 7)) /\ AllDigits(SubSeq(s, 9, 10))
    THEN LET y == IntOf(SubSeq(s, 1, 4))
             m == IntOf(SubSeq(s, 6, 7))
             d == IntOf(SubSeq(s, 9, 10))
         IN  IF ValidDate(y, m, d) THEN Ok(Date(y, m, d)) ELSE Raise("ValueError", 188)
    ELSE Raise("ValueError", 188)

\* the %m directive: 1[0-2] | 0[1-9] | [1-9]
MatchesMonth(s) ==
    \/ Len(s) = 2 /\ s[1] = "1" /\ s[2] \in {"0", "1", "2"}
    \/ Len(s) = 2 /\ s[1] = "0" /\ IsDigit(s[2]) /\ s[2] # "0"
    \/ Len(s) = 1 /\ IsDigit(s[1]) /\ s[1] # "0"

\* the %d directive: 3[01] | [12]\d | 0[1-9] | [1-9] | " "[1-9]
MatchesDay(s) ==
    \/ Len(s) = 2 /\ s[1] = "3" /\ s[2] \in {"0", "1"}
    \/ Len(s) = 2 /\ s[1] \in {"1", "2"} /\ IsDigit(s[2])
    \/ Len(s) = 2 /\ s[1] \in {"0", " "} /\ IsDigit(s[2]) /\ s[2] # "0"
    \/ Len(s) = 1 /\ IsDigit(s[1]) /\ s[1] # "0"

\* datetime.strptime(s, "%Y-%m-%d").date() for text s: the whole of s has to match
strptime_ymd(s) ==
    IF /\ Len(s) >= 8 /\ Len(s) <= 10
       /\ AllDigits(SubSeq(s, 1, 4)) /\ s[5] = "-"
       /\ \E ml \in {1, 2} :
            /\ 6 + ml < Len(s)
            /\ s[6 + ml] = "-"
            /\ MatchesMonth(SubSeq(s, 6, 5 + ml))
            /\ MatchesDay(SubSeq(s, 7 + ml, Len(s)))
    THEN LET ml == CHOOSE n \in {1, 2} : s[6 + n] = "-" /\ MatchesMonth(SubSeq(s, 6, 5 + n))
             y == IntOf(SubSeq(s, 1, 4))
             m == IntOf(SubSeq(s, 6, 5 + ml))
             ds == SubSeq(s, 7 + ml, Len(s))
             d == IntOf(IF ds[1] = " " THEN Tail(ds) ELSE ds)
         IN  IF ValidDate(y, m, d) THEN Ok(Date(y, m, d)) ELSE Raise("ValueError", 191)
    ELSE Raise("ValueError", 191)

Skip == [k |-> "skip"]

\* ParseEventDate without the [:10] of line 188
ParseEventDate_untruncated(date_str) ==
    IF ~Truthy(date_str) THEN Skip
    ELSE IF date_str.k # "str" THEN Skip
    ELSE LET a == fromisoformat(date_str.v)
         IN  IF a.k = "ok" THEN a
             ELSE LET b == strptime_ymd(date_str.v)
                  IN  IF b.k = "ok" THEN b ELSE Skip

\* lines 183-193 of fetch(): the date of one event, or Skip for `continue`.
\* A truthy value that is not text fails both attempts with TypeError.
ParseEventDate(date_str) ==
    IF ~Truthy(date_str) THEN Skip
    ELSE IF date_str.k # "str" THEN Skip
    ELSE LET a == fromisoformat(Prefix(date_str.v, 10))
         IN  IF a.k = "ok" THEN a
             ELSE LET b == strptime_ymd(date_str.v)
                  IN  IF b.k = "ok" THEN b ELSE Skip

\* RawType without the .strip() of line 180
RawType_unstripped(ev) ==
    LET g == PyGet(ev, EVENT_TYPE_FIELD, 180)
    IN  IF g.k = "raise" THEN g
        ELSE IF ~Truthy(g.v) THEN Ok(<<>>)
        ELSE IF g.v.k # "str" THEN Raise("AttributeError", 180)
        ELSE Ok(g.v.v)

\* line 180: (ev.get(EVENT_TYPE_FIELD) or "").strip()
RawType(ev) ==
    LET g == PyGet(ev, EVENT_TYPE_FIELD, 180)
    IN  IF g.k = "raise" THEN g
        ELSE IF ~Truthy(g.v) THEN Ok(<<>>)
        ELSE IF g.v.k # "str" THEN Raise("AttributeError", 180)
        ELSE Ok(strip(g.v.v))

\* line 181: self._type_map.get(raw_type, raw_type)
MapType(type_map, raw_type) ==
    IF \E e \in type_map.v : e.key = raw_type
    THEN (CHOOSE e \in type_map.v : e.key = raw_type).val
    ELSE raw_type

Collection(date, t) == [date |-> date, t |-> t]

\* lines 179-195: the loop of fetch() from event i on, out being what is appended so far
RECURSIVE NormalizeFrom(_, _, _, _)
NormalizeFrom(type_map, events, i, out) ==
    IF i > Len(events) THEN Ok(out)
    ELSE LET ev == events[i]
             rt == RawType(ev)
         IN  IF rt.k = "raise" THEN rt
             ELSE LET t == MapType(type_map, rt.v)
                      d == ParseEventDate(DictGet(ev, EVENT_DATE_FIELD))
                  IN  IF d.k = "skip"
                      THEN NormalizeFrom(type_map, events, i + 1, out)
                      ELSE NormalizeFrom(type_map, events, i + 1, Append(out, Collection(d.v, t)))

\* lines 178-196
Normalize(type_map, events) == NormalizeFrom(type_map, events, 1, <<>>)

----------------------------------------------------------------------------
(* HTTP *)

\* session.get() raising instead of returning (timeout, connection failure)
TransportFailure == [k |-> "exc"]
HttpResponse(status, body) == [k |-> "http", status |-> status, body |-> body]
\* a body that is not JSON
InvalidJson == [k |-> "invalid"]

\* what a GET gives up to resp.json(): the parsed document or the exception raised
ReadJson(response, getLine) ==
    IF response.k = "exc" THEN Raise("ConnectionError", getLine)
    ELSE IF response.status >= 400 THEN Raise("HTTPError", getLine + 1)
    ELSE IF response.body.k = "invalid" THEN Raise("JSONDecodeError", getLine + 2)
    ELSE Ok(response.body)

Request(url, params) == [url |-> url, params |-> params]

----------------------------------------------------------------------------
(* Source.__init__ *)

EmptyDict == JDict({})
EmptyStr == JStr(<<>>)

\* x or default
OrElse(x, default) == IF Truthy(x) THEN x ELSE default

\* lines 95-101: the attributes the constructor sets from its arguments
\* (tz and the session take no part in what fetch() computes)
__init__(citycode_, city_name_, insee_whitelist_, q_, events_url_, events_extra_params_, type_map_) ==
    [ citycode |-> citycode_,
      city_name |-> city_name_,
      insee_whitelist |-> OrElse(insee_whitelist_, Ref("INSEE_WHITELIST_DEFAULT")),
      q |-> JStr(strip(OrElse(q_, EmptyStr).v)),
      events_url |-> JUrl(rstrip_slash(OrElse(events_url_, JUrl(DEFAULT_EVENTS_URL)).v)),
      events_extra_params |-> OrElse(events_extra_params_, EmptyDict),
      type_map |-> OrElse(type_map_, EmptyDict) ]

----------------------------------------------------------------------------
(* Source._resolve_citycode *)

\* lines 112-123: the city search GET
SearchRequest(slf) ==
    Request(CITY_SEARCH_URL,
            JDict({ KV("size", JNum(1000)),
                    KV("types[]", JStr(<<"c","i","t","y">>)),
                    KV("select[]", JList(<<JStr(<<"f","u","l","l","_","n","a","m","e">>), JStr(<<"p","o","s","t","a","l","_","c","o","d","e","s">>),
                                           JStr(<<"i","n","s","e","e","_","c","o","d","e">>), JStr(<<"a","d","d","r","e","s","s","_","c","o","u","n","t">>)>>)),
                    KV("q", slf.city_name),
                    KV("insee_codes[]", JList(Deref(slf.insee_whitelist).v)) }))

\* resolve_finish testing the code for None only, where line 129 tests its truth
resolve_finish_none_test(response) ==
    LET doc == ReadJson(response, 123)
    IN  IF doc.k = "raise" THEN doc
        ELSE LET items == _dig(doc.v, CITY_ARRAY_PATH)
             IN  IF items.k = "raise" THEN items
                 ELSE IF ~Truthy(items.v) THEN Raise("ValueError", 127)
                 ELSE LET first == PySubscript(items.v, 0, 128)
                      IN  IF first.k = "raise" THEN first
                          ELSE LET code == PyGet(first.v, CITY_CODE_FIELD, 128)
                               IN  IF code.k = "raise" THEN code
                                   ELSE IF code.v = Null THEN Raise("ValueError", 130)
                                   ELSE Ok(JStr(Str(code.v)))

\* lines 123-131: from the search response to the returned code
resolve_finish(response) ==
    LET doc == ReadJson(response, 123)
    IN  IF doc.k = "raise" THEN doc
        ELSE LET items == _dig(doc.v, CITY_ARRAY_PATH)
             IN  IF items.k = "raise" THEN items
                 ELSE IF ~Truthy(items.v) THEN Raise("ValueError", 127)
                 ELSE LET first == PySubscript(items.v, 0, 128)
                      IN  IF first.k = "raise" THEN first
                          ELSE LET code == PyGet(first.v, CITY_CODE_FIELD, 128)
                               IN  IF code.k = "raise" THEN code
                                   ELSE IF ~Truthy(code.v) THEN Raise("ValueError", 130)
                                   ELSE Ok(JStr(Str(code.v)))

----------------------------------------------------------------------------
(* Source._geocode *)

\* lines 138-144: the geocoder GET
GeocoderRequest(slf, code) ==
    Request(GEOCODER_URL,
            JDict({ KV("q", slf.q),
                    KV("limit", JNum(10000)),
                    KV("lookup", JStr(<<"p","u","b","l","i","d","a","t","a">>)),
                    KV("citycode", code) }))

\* lines 151-155: the identifier of the chosen feature
AddressIdOf(addr) ==
    LET nested == _dig(addr, ADDR_ID_PATH)
    IN  IF nested.k = "ok" THEN nested ELSE PyGet(addr, "id", 155)

\* lines 144-159: from the geocoder response to the returned identifier
geocode_finish(response) ==
    LET doc == ReadJson(response, 144)
    IN  IF doc.k = "raise" THEN doc
        ELSE LET arr == _dig(doc.v, ADDR_ARRAY_PATH)
             IN  IF arr.k = "raise" THEN arr
                 ELSE IF ~Truthy(arr.v) THEN Raise("ValueError", 148)
                 ELSE LET addr == PySubscript(arr.v, 0, 151)
                      IN  IF addr.k = "raise" THEN addr
                          ELSE LET id == AddressIdOf(addr.v)
                               IN  IF id.k = "raise" THEN id
                                   ELSE IF ~Truthy(id.v) THEN Raise("ValueError", 158)
                                   ELSE Ok(JStr(Str(id.v)))

----------------------------------------------------------------------------
(* Source._fetch_events *)

\* EventsParams with the update the other way round: the identifier put last
EventsParams_address_last(addr, extra) ==
    JDict({ e \in extra.v : e.key # "address_id" } \cup { KV("address_id", addr) })

\* lines 163-164: {"address_id": address_id} updated with the extra parameters
EventsParams(addr, extra) ==
    LET base == { KV("address_id", addr) }
    IN  JDict({ e \in base : ~\E x \in extra.v : x.key = e.key } \cup extra.v)

\* lines 163-166: the events GET
EventsRequest(slf, addr) ==
    Request(slf.events_url.v, EventsParams(addr, slf.events_extra_params))

\* lines 166-171: from the events response to the returned list
events_finish(response) ==
    LET doc == ReadJson(response, 166)
    IN  IF doc.k = "raise" THEN doc
        ELSE LET events == _dig(doc.v, EVENTS_ARRAY_PATH)
             IN  IF events.k = "raise" THEN events
                 ELSE IF events.v.k # "list" THEN Raise("ValueError", 170)
                 ELSE events

----------------------------------------------------------------------------
(* Source.fetch, cut at its blocking GETs *)

NoResponse == [step |-> "none"]
Received(step, response) == [step |-> step, response |-> response]

\* the invocation's frame and history as it is entered
NewFrame ==
    [ pc |-> "idle", citycode |-> Null, address_id |-> Null, reqs |-> <<>>,
      resp |-> NoResponse, r_city |-> NotRun, r_addr |-> NotRun, r_events |-> NotRun,
      outcome |-> NotRun ]

\* fetch() left by an exception or by return: the locals go with the frame
Leave(f, how) ==
    [f EXCEPT !.pc = "idle", !.citycode = Null, !.address_id = Null, !.outcome = how]

\* fetch_begin searching the city whenever a city_name is given, configured code or not
fetch_begin_search_first(slf) ==
    IF Truthy(slf.city_name)
    THEN [NewFrame EXCEPT !.pc = "search", !.reqs = <<SearchRequest(slf)>>]
    ELSE IF Truthy(slf.citycode)
    THEN [NewFrame EXCEPT !.pc = "resolved", !.citycode = slf.citycode, !.r_city = Ok(slf.citycode)]
    ELSE Leave([NewFrame EXCEPT !.r_city = Raise("ValueError", 110)], Raise("ValueError", 110))

\* line 174: _resolve_citycode() from its entry to its GET (lines 107-123)
fetch_begin(slf) ==
    IF Truthy(slf.citycode)
    THEN [NewFrame EXCEPT !.pc = "resolved", !.citycode = slf.citycode, !.r_city = Ok(slf.citycode)]
    ELSE IF ~Truthy(slf.city_name)
    THEN Leave([NewFrame EXCEPT !.r_city = Raise("ValueError", 110)], Raise("ValueError", 110))
    ELSE [NewFrame EXCEPT !.pc = "search", !.reqs = <<SearchRequest(slf)>>]

\* line 174: the city search GET returns and _resolve_citycode() ends (lines 123-131)
on_search_response(f, response) ==
    LET r == resolve_finish(response)
        g == [f EXCEPT !.resp = Received("search", response), !.r_city = r]
    IN  IF r.k = "raise" THEN Leave(g, r)
        ELSE [g EXCEPT !.pc = "resolved", !.citycode = r.v]

\* call_geocode without the test of q at line 135
call_geocode_unchecked(slf, f) ==
    [f EXCEPT !.pc = "geocoder", !.resp = NoResponse,
              !.reqs = Append(f.reqs, GeocoderRequest(slf, f.citycode))]

\* line 175: _geocode(citycode) from its entry to its GET (lines 135-144)
call_geocode(slf, f) ==
    IF ~Truthy(slf.q)
    THEN Leave([f EXCEPT !.r_addr = Raise("ValueError", 136)], Raise("ValueError", 136))
    ELSE [f EXCEPT !.pc = "geocoder", !.resp = NoResponse,
                   !.reqs = Append(f.reqs, GeocoderRequest(slf, f.citycode))]

\* on_geocoder_response going on without an identifier where _geocode() raised
on_geocoder_response_swallow(f, response) ==
    LET r == geocode_finish(response)
        g == [f EXCEPT !.resp = Received("geocoder", response), !.r_addr = r]
    IN  [g EXCEPT !.pc = "geocoded", !.address_id = IF r.k = "raise" THEN EmptyStr ELSE r.v]

\* line 175: the geocoder GET returns and _geocode() ends (lines 144-159)
on_geocoder_response(f, response) ==
    LET r == geocode_finish(response)
        g == [f EXCEPT !.resp = Received("geocoder", response), !.r_addr = r]
    IN  IF r.k = "raise" THEN Leave(g, r)
        ELSE [g EXCEPT !.pc = "geocoded", !.address_id = r.v]

\* line 176: _fetch_events(address_id) from its entry to its GET (lines 163-166)
call_fetch_events(slf, f) ==
    [f EXCEPT !.pc = "events", !.resp = NoResponse,
              !.reqs = Append(f.reqs, EventsRequest(slf, f.address_id))]

\* line 176: the events GET returns and _fetch_events() ends (lines 166-171);
\* then the loop and the return of lines 178-196
on_events_response(slf, f, response) ==
    LET r == events_finish(response)
        g == [f EXCEPT !.resp = Received("events", response), !.r_events = r]
    IN  IF r.k = "raise" THEN Leave(g, r)
        ELSE Leave(g, Normalize(slf.type_map, r.v.v))

Frame ==
    [ pc |-> pc, citycode |-> citycode, address_id |-> address_id, reqs |-> reqs,
      resp |-> resp, r_city |-> r_city, r_addr |-> r_addr, r_events |-> r_events,
      outcome |-> outcome ]

Becomes(f) ==
    /\ pc' = f.pc
    /\ citycode' = f.citycode
    /\ address_id' = f.address_id
    /\ reqs' = f.reqs
    /\ resp' = f.resp
    /\ r_city' = f.r_city
    /\ r_addr' = f.r_addr
    /\ r_events' = f.r_events
    /\ outcome' = f.outcome

----------------------------------------------------------------------------
(* Explored inputs *)

SeqsUpTo(S, n) == UNION { [1..m -> S] : m \in 0..n }

\* constructor arguments
CitycodeArgs == { Null, EmptyStr, JStr(<<"5", "9", "0", "8", "0">>) }
CityNameArgs == { Null, JStr(<<"B", "e", "u", "v", "r", "y">>) }
QArgs == { Null, JStr(<<" ", " ">>), JStr(<<" ", "9", " ", "R", "u", "e", " ">>) }
\* (insee_whitelist, events_url, events_extra_params, type_map)
OptionArgs ==
    { <<Null, Null, Null, Null>>,
      <<Null, Null, JDict({ KV("dataset", JStr(<<"d", "1">>)) }),
        JDict({ KV(<<"O", "M">>, <<"O", "r", "d", "u", "r", "e", "s">>), KV(<<>>, <<"D", "i", "v", "e", "r", "s">>) })>>,
      <<JList(<<JStr(<<"5", "9", "0", "8", "0">>), JStr(<<"5", "9", "0", "0", "4">>)>>), JUrl(<<"http:", "", "e", "v1", "">>),
        JDict({ KV("address_id", JStr(<<"X", "9">>)), KV("from", JStr(<<"2", "0", "2", "4">>)) }),
        JDict({ KV(<<"O", "M">>, <<"O", "r", "d", "u", "r", "e", "s">>) })>> }

\* city search documents
City(fields) == JDict(fields \cup { KV("full_name", JStr(<<"B", "e", "u", "v", "r", "y">>)) })
SearchBodies ==
    { JDict({ KV("items", JList(<<City({ KV("insee_code", JStr(<<"5", "9", "0", "8", "0">>)) })>>)) }),
      JDict({ KV("items", JList(<<City({ KV("insee_code", JStr(<<"5", "9", "0", "0", "4">>)) }),
                                  City({ KV("insee_code", JStr(<<"5", "9", "0", "8", "0">>)) })>>)) }),
      JDict({ KV("items", JList(<<City({ KV("insee_code", JNum(59080)) })>>)) }),
      JDict({ KV("items", JList(<<City({ KV("insee_code", EmptyStr) }),
                                  City({ KV("insee_code", JStr(<<"5", "9", "0", "8", "0">>)) })>>)) }),
      JDict({ KV("items", JList(<<City({ KV("insee_code", JNum(0)) })>>)) }),
      JDict({ KV("items", JList(<<City({ KV("insee_code", Null) })>>)) }),
      JDict({ KV("items", JList(<<City({})>>)) }),
      JDict({ KV("items", JList(<<Null>>)) }),
      JDict({ KV("items", JList(<<>>)) }),
      JDict({ KV("items", Null) }),
      JDict({ KV("items", JStr(<<"a", "b">>)) }),
      JDict({ KV("items", JNum(3)) }),
      JDict({ KV("items", City({ KV("insee_code", JStr(<<"5", "9", "0", "8", "0">>)) })) }),
      JDict({ KV("total", JNum(0)) }),
      JList(<<City({ KV("insee_code", JStr(<<"5", "9", "0", "8", "0">>)) })>>),
      InvalidJson }

\* geocoder features
Features ==
    { JDict({ KV("properties", JDict({ KV("id", JStr(<<"A", "1">>)) })) }),
      JDict({ KV("properties", JDict({ KV("id", JStr(<<"C", "2">>)), KV("certification", JBool(TRUE)) })) }),
      JDict({ KV("properties", JDict({ KV("certification", JBool(FALSE)) })), KV("id", JNum(73)) }),
      JDict({ KV("properties", JDict({ KV("id", Null) })), KV("id", JNum(73)) }),
      JDict({ KV("properties", JDict({ KV("id", EmptyStr) })), KV("id", JNum(73)) }),
      JDict({ KV("properties", JDict({ KV("certification", JBool(TRUE)) })) }),
      JDict({ KV("id", EmptyStr) }),
      JStr(<<"x">>) }
GeocoderBodies ==
    { JDict({ KV("features", JList(fs)) }) : fs \in SeqsUpTo(Features, MaxFeatures) }
    \cup { JDict({ KV("features", Null) }),
           JDict({ KV("features", JNum(1)) }),
           JDict({ KV("features", JDict({ KV("id", JStr(<<"A", "1">>)) })) }),
           JDict({ KV("items", JList(<<>>)) }),
           JList(<<>>),
           InvalidJson }

\* raw events
Event(date, stream) == JDict({ KV("date", date), KV("stream", stream) })
RawEvents ==
    { Event(JStr(<<"2", "0", "2", "4", "-", "0", "3", "-", "1", "5", "T", "0", "0", ":", "0", "0", ":", "0", "0">>), JStr(<<"O", "M">>)),
      Event(JStr(<<"2", "0", "2", "4", "-", "0", "3", "-", "1", "5">>), JStr(<<" ", "O", "M", "\t">>)),
      Event(JStr(<<"N", "/", "A">>), JStr(<<"V", "e", "r", "r", "e">>)),
      Event(JStr(<<"2", "0", "2", "4", "-", "3", "-", "5">>), JStr(<<"V", "e", "r", "r", "e", " ">>)),
      JDict({ KV("stream", JStr(<<"O", "M">>)) }),
      Event(EmptyStr, Null),
      Event(JStr(<<"2", "0", "2", "3", "-", "0", "2", "-", "2", "9">>), JStr(<<"V", "e", "r", "r", "e">>)),
      JDict({ KV("date", JStr(<<"2", "0", "2", "4", "-", "0", "2", "-", "2", "9", "j", "u", "n", "k">>)) }),
      Event(JNum(20240315), JStr(<<"O", "M">>)) }
\* a list element that is no raw event: its type is not text
NonEvents == { Event(JStr(<<"2", "0", "2", "4", "-", "0", "3", "-", "1", "5">>), JNum(5)) }
EventsBodies ==
    { JDict({ KV("items", JList(es)) }) : es \in SeqsUpTo(RawEvents \cup NonEvents, MaxEvents) }
    \cup { JDict({ KV("items", Null) }),
           JDict({ KV("items", JStr(<<"n", "o", "n", "e">>)) }),
           JDict({ KV("items", JDict({ KV("date", JStr(<<"2", "0", "2", "4", "-", "0", "3", "-", "1", "5">>)) })) }),
           JDict({ KV("events", JList(<<>>)) }),
           InvalidJson }

\* what a GET can give: an exception, an error status, or a document
Responses(bodies) ==
    { TransportFailure } \cup { HttpResponse(503, b) : b \in { Null } }
    \cup { HttpResponse(200, b) : b \in bodies }

----------------------------------------------------------------------------
(* The source instance and its fetch() *)

Init ==
    /\ \E cc \in CitycodeArgs, cn \in CityNameArgs, q \in QArgs, op \in OptionArgs :
            /\ self = __init__(cc, cn, op[1], q, op[2], op[3], op[4])
            /\ self0 = __init__(cc, cn, op[1], q, op[2], op[3], op[4])
    /\ pc = NewFrame.pc
    /\ citycode = NewFrame.citycode
    /\ address_id = NewFrame.address_id
    /\ reqs = NewFrame.reqs
    /\ resp = NewFrame.resp
    /\ r_city = NewFrame.r_city
    /\ r_addr = NewFrame.r_addr
    /\ r_events = NewFrame.r_events
    /\ outcome = NewFrame.outcome
    /\ calls = 0
    /\ digObj = Null
    /\ digPath = <<>>
    /\ digRes = NotRun

\* fetch() is called: line 174 up to the city search GET, or past it with a configured code
FetchBegin ==
    /\ pc = "idle"
    /\ Becomes(fetch_begin(self))
    /\ calls' = IF calls < MaxCalls THEN calls + 1 ELSE calls
    /\ UNCHANGED <<self, self0, digVars>>

\* CitySearchReturn keeping the code it resolved on the instance
CitySearchReturn_caching ==
    /\ pc = "search"
    /\ \E response \in Responses(SearchBodies) : Becomes(on_search_response(Frame, response))
    /\ self' = IF r_city'.k = "ok" THEN [self EXCEPT !.citycode = r_city'.v] ELSE self
    /\ UNCHANGED <<self0, calls, digVars>>

\* the city search GET returns or raises
CitySearchReturn ==
    /\ pc = "search"
    /\ \E response \in Responses(SearchBodies) : Becomes(on_search_response(Frame, response))
    /\ UNCHANGED <<self, self0, calls, digVars>>

\* line 175: _geocode() is entered
GeocodeCall ==
    /\ pc = "resolved"
    /\ Becomes(call_geocode(self, Frame))
    /\ UNCHANGED <<self, self0, calls, digVars>>

\* the geocoder GET returns or raises
GeocoderReturn ==
    /\ pc = "geocoder"
    /\ \E response \in Responses(GeocoderBodies) : Becomes(on_geocoder_response(Frame, response))
    /\ UNCHANGED <<self, self0, calls, digVars>>

\* line 176: _fetch_events() is entered
EventsCall ==
    /\ pc = "geocoded"
    /\ Becomes(call_fetch_events(self, Frame))
    /\ UNCHANGED <<self, self0, calls, digVars>>

\* the events GET returns or raises; on a list, fetch() normalizes it and returns
EventsReturn ==
    /\ pc = "events"
    /\ \E response \in Responses(EventsBodies) : Becomes(on_events_response(self, Frame, response))
    /\ UNCHANGED <<self, self0, calls, digVars>>

Next ==
    \/ FetchBegin
    \/ CitySearchReturn
    \/ GeocodeCall
    \/ GeocoderReturn
    \/ EventsCall
    \/ EventsReturn

Spec == Init /\ [][Next]_vars

----------------------------------------------------------------------------
(* _dig alone, on bounded JSON values and paths *)

DigScalars == { Null, JNum(7), JStr(<<"x", "y">>) }
DigKeys == { "a", "b" }
DigLevel1 ==
    DigScalars
    \cup { JList(s) : s \in SeqsUpTo(DigScalars, MaxDigLen) }
    \cup UNION { { JDict({ KV(key, f[key]) : key \in D }) : f \in [D -> DigScalars] } : D \in SUBSET DigKeys }
DigValues ==
    DigLevel1
    \cup { JList(<<u>>) : u \in DigLevel1 }
    \cup { JDict({ KV("a", u) }) : u \in DigLevel1 }
DigSteps == { Key(s) : s \in DigKeys } \cup { Idx(i) : i \in 0..(MaxDigLen - 1) }
DigPaths == SeqsUpTo(DigSteps, MaxPathLen)

InitDig ==
    /\ self = __init__(Null, Null, Null, Null, Null, Null, Null)
    /\ self0 = __init__(Null, Null, Null, Null, Null, Null, Null)
    /\ pc = NewFrame.pc
    /\ citycode = NewFrame.citycode
    /\ address_id = NewFrame.address_id
    /\ reqs = NewFrame.reqs
    /\ resp = NewFrame.resp
    /\ r_city = NewFrame.r_city
    /\ r_addr = NewFrame.r_addr
    /\ r_events = NewFrame.r_events
    /\ outcome = NewFrame.outcome
    /\ calls = 0
    /\ digObj \in DigValues
    /\ digPath \in DigPaths
    /\ digRes = NotRun

\* _dig(obj, path) is called and returns or raises
DigCall ==
    /\ digRes = NotRun
    /\ digRes' = _dig(digObj, digPath)
    /\ UNCHANGED <<digObj, digPath, fetchVars>>

NextDig == DigCall

SpecDig == InitDig /\ [][NextDig]_vars

----------------------------------------------------------------------------
(* What the claims speak of, stated apart from the code's own steps *)

Missing == [k |-> "missing"]

\* the child of JSON value v under one path step, Missing when there is none
ChildOf(v, step) ==
    IF step.k = "key"
    THEN IF v.k = "dict" /\ \E e \in v.v : e.key = step.v
         THEN (CHOOSE e \in v.v : e.key = step.v).val
         ELSE Missing
    ELSE IF v.k = "list" /\ step.v >= 0 /\ step.v < Len(v.v) THEN v.v[step.v + 1]
    ELSE IF v.k = "str" /\ step.v >= 0 /\ step.v < Len(v.v) THEN JStr(<<v.v[step.v + 1]>>)
    ELSE Missing

\* the value reached from v along path, Missing when a level is absent or null
RECURSIVE Reach(_, _)
Reach(v, path) ==
    IF path = <<>> THEN v
    ELSE LET c == ChildOf(v, Head(path))
         IN  IF c = Missing \/ c = Null THEN Missing ELSE Reach(c, Tail(path))

LookupErrors == { "KeyError", "IndexError" }

\* the requests of the invocation, by the endpoint they go to
Kinds ==
    [ n \in 1..Len(reqs) |->
        IF reqs[n].url = CITY_SEARCH_URL THEN "search"
        ELSE IF reqs[n].url = GEOCODER_URL THEN "geocoder"
        ELSE "events" ]
Issued(kind) == \E n \in 1..Len(reqs) : Kinds[n] = kind

\* the response just received is a success carrying a JSON object
GotObject(step) ==
    /\ step # "none"
    /\ resp.step = step
    /\ resp.response.k = "http"
    /\ resp.response.status = 200
    /\ resp.response.body.k = "dict"

\* its member `key` is a list
GotList(step, key) ==
    /\ GotObject(step)
    /\ ChildOf(resp.response.body, Key(key)).k = "list"

ListAt(key) == ChildOf(resp.response.body, Key(key)).v

----------------------------------------------------------------------------
(* C10 *)

\* C10: for every JSON value and path, _dig returns the value reached along the
\* path, never null for a path that is not empty, and every failure is a lookup
\* error (absent level, key applied to a non-mapping, missing or null value).
C10_DigContract ==
    digRes # NotRun =>
        LET want == Reach(digObj, digPath)
        IN  /\ want # Missing => digRes = Ok(want)
            /\ want = Missing => digRes.k = "raise" /\ digRes.type \in LookupErrors
            /\ (digRes.k = "ok" /\ digPath # <<>>) => digRes.v # Null

----------------------------------------------------------------------------
(* C4 *)

\* a value that can serve as an identifier: present and not empty
Offered(x) == x # Missing /\ Truthy(x)

\* the text of an identifier or code: the text itself, or the numeral of a number
SameText(text, x) ==
    IF x.k = "str" THEN text = x.v
    ELSE IF x.k = "num" THEN AllDigits(text) /\ IntOf(text) = x.v
    ELSE TRUE

\* C4: _geocode fails on zero features; otherwise it returns the first feature's
\* properties.id, or the first feature's top-level id when the nested path gives
\* no identifier; it fails only when neither place offers one; the identifier
\* returned is never empty; certification flags play no part.
C4_GeocodeFirstIdentifier ==
    /\ r_addr.k = "ok" => r_addr.v.k = "str" /\ Len(r_addr.v.v) > 0
    /\ GotList("geocoder", "features") =>
        LET fs == ListAt("features")
        IN  IF Len(fs) = 0 THEN r_addr = Raise("ValueError", 148)
            ELSE LET nested == Reach(fs[1], ADDR_ID_PATH)
                     top == ChildOf(fs[1], Key("id"))
                 IN  IF Offered(nested) THEN r_addr.k = "ok" /\ SameText(r_addr.v.v, nested)
                     ELSE IF Offered(top) THEN r_addr.k = "ok" /\ SameText(r_addr.v.v, top)
                     ELSE r_addr.k = "raise"

----------------------------------------------------------------------------
(* C5 *)

\* C5: _resolve_citycode returns a non-empty code string or fails; it fails with
\* "no results" on an empty result list and with an error when the first result
\* has no code; a code found by search is the code field of the first result.
C5_ResolveCitycode ==
    /\ r_city.k = "ok" => r_city.v.k = "str" /\ Len(r_city.v.v) > 0
    /\ (r_city.k = "ok" /\ ~Issued("search")) => r_city.v = self0.citycode
    /\ (Issued("search") /\ resp.step = "search") => r_city.k \in { "ok", "raise" }
    /\ GotList("search", "items") =>
        LET items == ListAt("items")
        IN  IF Len(items) = 0 THEN r_city = Raise("ValueError", 127)
            ELSE LET code == ChildOf(items[1], Key(CITY_CODE_FIELD))
                 IN  IF Offered(code)
                     THEN r_city.k = "ok" /\ SameText(r_city.v.v, code)
                     ELSE r_city.k = "raise"
                          /\ (items[1].k = "dict" => r_city = Raise("ValueError", 130))

\* a search with two results: the code of the first is returned
C5_Witness ==
    /\ GotList("search", "items")
    /\ Len(ListAt("items")) = 2
    /\ r_city = Ok(JStr(<<"5", "9", "0", "0", "4">>))

----------------------------------------------------------------------------
(* C7 *)

\* C7: the GETs of one invocation go out one after the other in the order city
\* search, geocoder, events, each at most once; the search only when no citycode
\* is configured, the geocoder only after the city is resolved, the events GET
\* only after the address is geocoded.
C7_RequestOrder ==
    /\ Kinds \in { <<>>, <<"search">>, <<"search", "geocoder">>, <<"search", "geocoder", "events">>,
                   <<"geocoder">>, <<"geocoder", "events">> }
    /\ Issued("search") <=> (calls > 0 /\ ~Truthy(self0.citycode) /\ Truthy(self0.city_name))
    /\ Issued("geocoder") =>
        /\ r_city.k = "ok"
        /\ \E n \in 1..Len(reqs) :
             Kinds[n] = "geocoder" /\ ChildOf(reqs[n].params, Key("citycode")) = r_city.v
    /\ Issued("events") => r_addr.k = "ok"
    \* a GET is outstanding exactly while fetch() is blocked in it, and it is the latest one
    /\ pc \in { "search", "geocoder", "events" } =>
        /\ Len(reqs) > 0 /\ Kinds[Len(reqs)] = pc
        /\ resp = NoResponse
    /\ pc \in { "idle", "resolved", "geocoded" } =>
        (Len(reqs) > 0 => resp.step = Kinds[Len(reqs)])

\* all three GETs went out in one invocation
C7_Witness ==
    /\ Kinds = <<"search", "geocoder", "events">>
    /\ outcome.k = "ok"

----------------------------------------------------------------------------
(* C2 *)

ArrayKey(step) == IF step = "geocoder" THEN "features" ELSE "items"
ErrorLines(step) ==
    CASE step = "search" -> 58..69 \cup 107..131
      [] step = "geocoder" -> 58..69 \cup 135..159
      [] OTHER -> 58..69 \cup 163..171

\* C2: when a step fails with a configuration, upstream-shape or transport error,
\* fetch() ends by raising that error, returns no records, and no GET of a later
\* step goes out.
C2_AbortWhollyOnError ==
    /\ r_city.k = "raise" =>
        /\ pc = "idle" /\ outcome = r_city
        /\ ~Issued("geocoder") /\ ~Issued("events")
    /\ r_addr.k = "raise" =>
        /\ pc = "idle" /\ outcome = r_addr
        /\ ~Issued("events")
    /\ r_events.k = "raise" => pc = "idle" /\ outcome = r_events
    \* transport errors
    /\ (resp.step # "none" /\ resp.response.k = "exc") =>
        outcome.k = "raise" /\ outcome.type = "ConnectionError" /\ Kinds[Len(reqs)] = resp.step
    /\ (resp.step # "none" /\ resp.response.k = "http" /\ resp.response.status # 200) =>
        outcome.k = "raise" /\ outcome.type = "HTTPError" /\ Kinds[Len(reqs)] = resp.step
    \* upstream-shape errors: no document, no array where one is expected, an empty result list
    /\ (resp.step # "none" /\ resp.response.k = "http" /\ resp.response.status = 200
            /\ ~GotObject(resp.step)) =>
        outcome.k = "raise" /\ Kinds[Len(reqs)] = resp.step
    /\ (GotObject(resp.step) /\ Reach(resp.response.body, <<Key(ArrayKey(resp.step))>>) = Missing) =>
        outcome.k = "raise" /\ outcome.type = "KeyError" /\ Kinds[Len(reqs)] = resp.step
    /\ (resp.step \in { "search", "geocoder" } /\ GotList(resp.step, ArrayKey(resp.step))
            /\ ListAt(ArrayKey(resp.step)) = <<>>) =>
        outcome.k = "raise" /\ outcome.type = "ValueError" /\ Kinds[Len(reqs)] = resp.step
    \* the error that ends fetch() is raised in the step whose GET went out last
    /\ (outcome.k = "raise" /\ Len(reqs) > 0 /\ outcome.line < 178) =>
        \/ outcome.line \in ErrorLines(Kinds[Len(reqs)])
        \/ outcome.line = 136 /\ Kinds[Len(reqs)] = "search"

\* a failure of the geocoder step after a successful city search
C2_Witness ==
    /\ Kinds = <<"search", "geocoder">>
    /\ r_city.k = "ok"
    /\ r_addr = Raise("ValueError", 148)
    /\ outcome = Raise("ValueError", 148)
    /\ pc = "idle"

----------------------------------------------------------------------------
(* C3 *)

NoCity == ~Truthy(self0.citycode) /\ ~Truthy(self0.city_name)
NoQuery == ~Truthy(self0.q)
ConfigError(o) == o.k = "raise" /\ o.type = "ValueError" /\ o.line \in { 110, 136 }
Ended == calls > 0 /\ pc = "idle"

\* C3 as stated: with neither citycode nor city_name, or with q empty or blank,
\* fetch() aborts with a configuration error before any GET.
C3_AbortBeforeAnyRequest ==
    (NoCity \/ NoQuery) =>
        /\ reqs = <<>>
        /\ Ended => ConfigError(outcome)

\* C3 amended: without citycode and city_name fetch() aborts with the configuration
\* error before any GET. With q empty or blank no geocoder or events GET ever goes
\* out and no records are returned: with a citycode configured fetch() aborts with
\* the configuration error before any GET; with only city_name the city search GET
\* goes out first, and fetch() raises the configuration error once the code is
\* resolved, or the error of the search when it is not.
C3_ConfigErrors ==
    /\ NoCity => reqs = <<>> /\ (Ended => outcome = Raise("ValueError", 110))
    /\ NoQuery =>
        /\ ~Issued("geocoder") /\ ~Issued("events")
        /\ outcome.k # "ok"
    /\ (NoQuery /\ Truthy(self0.citycode)) =>
        reqs = <<>> /\ (Ended => outcome = Raise("ValueError", 136))
    /\ (NoQuery /\ ~NoCity /\ ~Truthy(self0.citycode)) =>
        /\ calls > 0 => Kinds = <<"search">>
        /\ Ended => outcome = (IF r_city.k = "ok" THEN Raise("ValueError", 136) ELSE r_city)

\* q blank, only city_name given: the search went out and resolved, then line 136 raised
C3_Witness ==
    /\ NoQuery /\ ~Truthy(self0.citycode)
    /\ Kinds = <<"search">>
    /\ r_city.k = "ok"
    /\ outcome = Raise("ValueError", 136)

----------------------------------------------------------------------------
(* C8 *)

EventsGet == reqs[Len(reqs)]
ExtraParams == self0.events_extra_params.v

EventsResult ==
    GotObject("events") =>
        LET v == ChildOf(resp.response.body, Key("items"))
        IN  IF v # Missing /\ v.k = "list" THEN r_events = Ok(v)
            ELSE /\ r_events.k = "raise"
                 /\ (v # Missing /\ v # Null) => r_events = Raise("ValueError", 170)

\* C8 as stated: whatever the extra parameters, the events GET carries address_id
\* equal to the identifier the geocoder resolved, and every extra parameter; the
\* call returns the array at the events path and fails when that is no list.
C8_AddressIdAlwaysResolved ==
    /\ Issued("events") =>
        /\ ChildOf(EventsGet.params, Key("address_id")) = r_addr.v
        /\ \A e \in ExtraParams : e \in EventsGet.params.v
    /\ EventsResult

\* C8 amended: the events GET goes to the configured URL with every extra
\* parameter, and with address_id equal to the resolved identifier unless the
\* extra parameters themselves name address_id, whose value is then the one sent;
\* the call returns the array at the events path and fails when that is no list.
C8_EventsRequest ==
    /\ Issued("events") =>
        /\ r_addr.k = "ok"
        /\ EventsGet.url = self0.events_url.v
        /\ \A e \in ExtraParams : e \in EventsGet.params.v
        /\ { e.key : e \in EventsGet.params.v } = { "address_id" } \cup { e.key : e \in ExtraParams }
        /\ Cardinality(EventsGet.params.v) = Cardinality({ e.key : e \in EventsGet.params.v })
        /\ (\A e \in ExtraParams : e.key # "address_id") =>
             ChildOf(EventsGet.params, Key("address_id")) = r_addr.v
    /\ EventsResult

\* extra parameters naming address_id, the events GET sent and its list returned
C8_Witness ==
    /\ Issued("events")
    /\ \E e \in ExtraParams : e.key = "address_id"
    /\ ChildOf(EventsGet.params, Key("address_id")) # r_addr.v
    /\ r_events.k = "ok" /\ Len(r_events.v.v) > 0

----------------------------------------------------------------------------
(* C1 *)

Pad2(n) == IF n < 10 THEN <<"0">> \o DecimalOf(n) ELSE DecimalOf(n)
CalendarYears == 2023..2024
CalendarDates ==
    { dt \in [y : CalendarYears, m : 1..12, d : 1..31] : dt.d <= DaysInMonth(dt.y, dt.m) }

\* the calendar date written YYYY-MM-DD
IsoText(dt) == DecimalOf(dt.y) \o <<"-">> \o Pad2(dt.m) \o <<"-">> \o Pad2(dt.d)

\* the calendar date written year-month-day with month and day padded or not
LooseTexts(dt) ==
    { DecimalOf(dt.y) \o <<"-">> \o mm \o <<"-">> \o dd :
        mm \in { DecimalOf(dt.m), Pad2(dt.m) },
        dd \in { DecimalOf(dt.d), Pad2(dt.d) }
               \cup (IF dt.d < 10 THEN { <<" ">> \o DecimalOf(dt.d) } ELSE {}) }

\* the date each written form stands for
IsoPairs == { <<IsoText(dt), dt>> : dt \in CalendarDates }
IsoTable == [ t \in { pr[1] : pr \in IsoPairs } |-> (CHOOSE pr \in IsoPairs : pr[1] = t)[2] ]
LoosePairs == UNION { { <<t, dt>> : t \in LooseTexts(dt) } : dt \in CalendarDates }
LooseTable == [ t \in { pr[1] : pr \in LoosePairs } |-> (CHOOSE pr \in LoosePairs : pr[1] = t)[2] ]

\* the calendar date a date field stands for, its time of day cut off; Missing
\* when the field is absent, empty, no text, or no date
DateOfField(ev) ==
    LET s == ChildOf(ev, Key(EVENT_DATE_FIELD))
    IN  IF s = Missing \/ s.k # "str" THEN Missing
        ELSE IF Prefix(s.v, 10) \in DOMAIN IsoTable THEN IsoTable[Prefix(s.v, 10)]
        ELSE IF s.v \in DOMAIN LooseTable THEN LooseTable[s.v]
        ELSE Missing

\* the events that keep a record, in their order
RECURSIVE Kept(_)
Kept(events) ==
    IF events = <<>> THEN <<>>
    ELSE IF DateOfField(Head(events)) = Missing THEN Kept(Tail(events))
    ELSE <<Head(events)>> \o Kept(Tail(events))

\* a raw event: a record whose type field is text or absent
IsRawEvent(ev) ==
    /\ ev.k = "dict"
    /\ LET s == ChildOf(ev, Key(EVENT_TYPE_FIELD)) IN s = Missing \/ s = Null \/ s.k = "str"

EventsList == r_events.v.v
GotRawEvents ==
    /\ resp.step = "events"
    /\ r_events.k = "ok"
    /\ \A i \in 1..Len(EventsList) : IsRawEvent(EventsList[i])

\* C1: for every list of raw events fetch() returns exactly one record for each
\* event whose date field is a date, in the order of the events, dated with the
\* calendar date of the field (time of day cut off); an event whose date is
\* missing, empty or no date is dropped without an error and without touching
\* the records of the others.
C1_Normalization ==
    GotRawEvents =>
        /\ outcome.k = "ok"
        /\ LET kept == Kept(EventsList)
           IN  /\ Len(outcome.v) = Len(kept)
               /\ \A i \in 1..Len(kept) : outcome.v[i].date = DateOfField(kept[i])

\* "N/A" dropped, "2024-03-15T00:00:00" kept as 2024-03-15
C1_Witness ==
    /\ GotRawEvents
    /\ Len(EventsList) = 2
    /\ ChildOf(EventsList[1], Key("date")) = JStr(<<"N", "/", "A">>)
    /\ ChildOf(EventsList[2], Key("date")) = JStr(<<"2", "0", "2", "4", "-", "0", "3", "-", "1", "5", "T", "0", "0", ":", "0", "0", ":", "0", "0">>)
    /\ outcome.k = "ok"
    /\ Len(outcome.v) = 1
    /\ outcome.v[1].date = Date(2024, 3, 15)

----------------------------------------------------------------------------
(* C6 *)

TypeMap == self0.type_map.v
Mapped(s) ==
    IF \E e \in TypeMap : e.key = s THEN (CHOOSE e \in TypeMap : e.key = s).val ELSE s

\* the text of the type field as the event gives it (empty when absent)
TypeText(ev) ==
    LET s == ChildOf(ev, Key(EVENT_TYPE_FIELD))
    IN  IF s = Missing \/ s = Null THEN <<>> ELSE s.v

\* raw[a..b] is raw without the white space at its two ends
TrimsAt(raw, a, b) ==
    /\ \A i \in 1..(a - 1) : IsSpace(raw[i])
    /\ \A i \in (b + 1)..Len(raw) : IsSpace(raw[i])
    /\ a > b \/ (~IsSpace(raw[a]) /\ ~IsSpace(raw[b]))

Emitted == GotRawEvents /\ outcome.k = "ok"

\* C6 as stated: the type of every record is type_map[raw] when the raw type of
\* its event is a key of type_map, and the raw type unchanged otherwise.
C6_RemapRawType ==
    Emitted =>
        LET kept == Kept(EventsList)
        IN  /\ Len(outcome.v) = Len(kept)
            /\ \A i \in 1..Len(kept) :
                    ChildOf(kept[i], Key(EVENT_TYPE_FIELD)) \notin { Missing, Null } =>
                        outcome.v[i].t = Mapped(TypeText(kept[i]))

\* C6 amended: the type of every record is type_map[s] when s is a key of
\* type_map and s otherwise, s being the raw type of its event without the white
\* space at its ends (the empty text when the event has no type).
C6_RemapStrippedType ==
    Emitted =>
        LET kept == Kept(EventsList)
        IN  /\ Len(outcome.v) = Len(kept)
            /\ \A i \in 1..Len(kept) :
                    LET raw == TypeText(kept[i])
                    IN  \E a \in 1..(Len(raw) + 1), b \in 0..Len(raw) :
                            /\ TrimsAt(raw, a, b)
                            /\ outcome.v[i].t = Mapped(SubSeq(raw, a, b))

\* " OM<tab>" is no key of the map, and its record is typed "Ordures"
C6_Witness ==
    /\ Emitted
    /\ Kept(EventsList) = EventsList
    /\ Len(EventsList) = 1
    /\ TypeText(EventsList[1]) = <<" ", "O", "M", "\t">>
    /\ Len(outcome.v) = 1
    /\ outcome.v[1].t = <<"O", "r", "d", "u", "r", "e", "s">>

----------------------------------------------------------------------------
(* C9 *)

\* C9: whatever fetch() calls came before, the attributes of the instance are
\* those the constructor set, nothing resolved is kept between calls, and every
\* call resolves afresh from the configuration and the responses it receives.
C9_NothingRetained ==
    /\ self = self0
    /\ pc = "idle" => citycode = Null /\ address_id = Null
    /\ calls > 0 =>
        IF Truthy(self0.citycode) THEN ~Issued("search") /\ r_city = Ok(self0.citycode)
        ELSE IF Truthy(self0.city_name)
        THEN /\ Len(reqs) > 0 /\ Kinds[1] = "search"
             /\ ChildOf(reqs[1].params, Key("q")) = self0.city_name
             /\ (resp.step = "search" /\ r_city.k = "ok") =>
                    r_city.v.v = Str(ChildOf(ListAt("items")[1], Key(CITY_CODE_FIELD)))
        ELSE reqs = <<>> /\ outcome = Raise("ValueError", 110)
    /\ (pc = "idle" /\ r_events.k = "ok") => outcome = Normalize(self0.type_map, r_events.v.v)

\* a second call on the instance, by city search, has returned records
C9_Witness ==
    /\ calls = MaxCalls
    /\ pc = "idle"
    /\ Kinds = <<"search", "geocoder", "events">>
    /\ outcome.k = "ok" /\ Len(outcome.v) > 0

====
